---------------------------- MODULE Spec2Model ----------------------------
(***************************************************************************)
(* Model of the two maintenance scripts of meal-log-app-new:               *)
(*                                                                         *)
(*   Script A, adjust_postinstall.py: read apps/server/package.json,       *)
(*     json.loads it, set scripts.postinstall, json.dumps(indent=2) it     *)
(*     back over the same file.                                            *)
(*   Script B, fix_esbuild.py: print whether node_modules/esbuild exists   *)
(*     and the entries of node_modules/esbuild/bin.                        *)
(*                                                                         *)
(* A file's content is its decoded text, held as a sequence of lexical     *)
(* tokens (punctuation, whitespace characters, string and number           *)
(* lexemes).  json.loads and json.dumps are modelled on that text: the     *)
(* parser is the recursive descent of json.decoder, the serialiser the     *)
(* encoder of json.encoder with its indent and separators.  The            *)
(* filesystem is modelled by what its system calls answer.                 *)
(***************************************************************************)
EXTENDS Naturals, Sequences, FiniteSets, TLC

VARIABLES
    script,     \* which script this process executes: "A" or "B"
    pc,         \* the statement the process is at, or "done" / "failed"
    exc,        \* the exception that ended the process, "" when none
    manifest,   \* apps/server/package.json on disk
    tree,       \* node_modules/esbuild and its bin directory on disk
    quota,      \* tokens the disk still accepts for the manifest's data
    pyExists,   \* how this Python's Path.exists answers EACCES
    text,       \* Script A: result of p.read_text()
    data,       \* Script A: the local `data`
    scripts,    \* Script A: the local `scripts`
    payload,    \* Script A: result of json.dumps(data, indent=2)
    stdout,     \* lines printed so far
    run,        \* number of the current invocation of the script
    disk0,      \* history: manifest and tree when the current invocation began
    wrote,      \* history: the content each completed invocation wrote
    trace       \* history: the statements the current invocation executed

vars == <<script, pc, exc, manifest, tree, quota, pyExists, text, data,
          scripts, payload, stdout, run, disk0, wrote, trace>>

---------------------------------------------------------------------------
(* Bounds of the model.                                                    *)

\* Consecutive invocations of a script that are followed.
MaxRuns == 2
\* Top-level keys other than "scripts" an enumerated manifest holds.
MaxOther == 2
\* Entries an enumerated esbuild/bin directory holds.
MaxBinFiles == 2

---------------------------------------------------------------------------
(* JSON values as Python holds them after json.loads.  Every value is a    *)
(* record [t, s, m]: t the type, s the scalar (a str's characters, the     *)
(* repr of an int or float, the JSON name of None/True/False), m the       *)
(* members in insertion order, each [k, v] (k = "" in a list).             *)

Str(s)   == [t |-> "str",   s |-> s, m |-> <<>>]
PyInt(s) == [t |-> "int",   s |-> s, m |-> <<>>]
Float(s) == [t |-> "float", s |-> s, m |-> <<>>]
Const(s) == [t |-> "const", s |-> s, m |-> <<>>]
Dict(m)  == [t |-> "dict",  s |-> "", m |-> m]
List(m)  == [t |-> "list",  s |-> "", m |-> m]
Unset    == [t |-> "unset", s |-> "", m |-> <<>>]

Item(k, v) == [k |-> k, v |-> v]

\* key in d
HasKey(m, k) == \E i \in 1..Len(m) : m[i].k = k

\* d[key], for a key that is present
GetItem(m, k) == m[CHOOSE i \in 1..Len(m) : m[i].k = k].v

\* d.get(key, default)
DictGet(m, k, default) == IF HasKey(m, k) THEN GetItem(m, k) ELSE default

\* A dict that keeps every assignment as a new entry, as a list of pairs would.
SetItemAppend(m, k, v) == Append(m, Item(k, v))

\* d[key] = value: a present key keeps its position and takes the new value,
\* a new key goes last.
SetItem(m, k, v) ==
    IF HasKey(m, k)
    THEN [i \in 1..Len(m) |-> IF m[i].k = k THEN Item(k, v) ELSE m[i]]
    ELSE Append(m, Item(k, v))

Keys(m) == {m[i].k : i \in 1..Len(m)}

---------------------------------------------------------------------------
(* Lexemes.                                                                *)

\* The string lexemes of the model: <<lexeme, the str it decodes to>>.
\* json.decoder.scanstring resolves the escapes.
StrTable ==
    { <<"\"scripts\"", "scripts">>,
      <<"\"\\u0073cripts\"", "scripts">>,
      <<"\"postinstall\"", "postinstall">>,
      <<"\"build\"", "build">>,
      <<"\"tsc\"", "tsc">>,
      <<"\"prisma generate\"", "prisma generate">>,
      <<"\"echo skip prisma generate\"", "echo skip prisma generate">>,
      <<"\"name\"", "name">>,
      <<"\"a/b\"", "a/b">>,
      <<"\"a\\/b\"", "a/b">>,
      <<"\"version\"", "version">>,
      <<"\"private\"", "private">>,
      <<"\"deps\"", "deps">> }

StrLexemes == {e[1] : e \in StrTable}

DecodeStr(lex) == (CHOOSE e \in StrTable : e[1] = lex)[2]

\* json.encoder.py_encode_basestring_ascii: the one lexeme dumps writes for
\* a str.  None of the model's strs holds a character it escapes.
EncodeStr(s) ==
    CASE s = "scripts"                   -> "\"scripts\""
      [] s = "postinstall"               -> "\"postinstall\""
      [] s = "build"                     -> "\"build\""
      [] s = "tsc"                       -> "\"tsc\""
      [] s = "prisma generate"           -> "\"prisma generate\""
      [] s = "echo skip prisma generate" -> "\"echo skip prisma generate\""
      [] s = "name"                      -> "\"name\""
      [] s = "a/b"                       -> "\"a/b\""
      [] s = "version"                   -> "\"version\""
      [] s = "private"                   -> "\"private\""
      [] s = "deps"                      -> "\"deps\""

\* The number lexemes of the model: <<lexeme, type, repr of the value>>.
\* int(lexeme) or float(lexeme), written back by int.__repr__ or
\* float.__repr__.
NumTable ==
    { <<"1", "int", "1">>,
      <<"0", "int", "0">>,
      <<"1.0", "float", "1.0">>,
      <<"1e2", "float", "100.0">>,
      <<"100.0", "float", "100.0">> }

NumLexemes == {e[1] : e \in NumTable}

DecodeNum(lex) ==
    LET e == CHOOSE n \in NumTable : n[1] = lex
    IN  [t |-> e[2], s |-> e[3], m |-> <<>>]

\* null, true, false
ConstLexemes == {"null", "true", "false"}

\* The constants json.loads accepts although JSON has no such literals
\* (parse_constant); they become float nan, inf, -inf, and dumps writes
\* them back under the same names (allow_nan).
NonJsonLexemes == {"NaN", "Infinity", "-Infinity"}

\* json.decoder.WHITESPACE: space, tab, line feed, carriage return
WS == {" ", "\t", "\n", "\r"}

---------------------------------------------------------------------------
(* json.dumps.                                                             *)

Spaces(n) == [i \in 1..n |-> " "]

\* newline_indent of json.encoder: nothing when indent is None
NewlineIndent(none, ind, level) ==
    IF none THEN <<>> ELSE <<"\n">> \o Spaces(ind * level)

RECURSIVE Encode(_, _, _, _, _, _)
RECURSIVE EncodeItems(_, _, _, _, _, _, _, _)

\* _iterencode_dict / _iterencode_list: the members from the i-th on, each
\* on its own indented line when an indent is given.
EncodeItems(m, i, keyed, none, ind, isep, ksep, level) ==
    IF i > Len(m) THEN <<>>
    ELSE (IF i > 1 THEN isep ELSE <<>>)
         \o NewlineIndent(none, ind, level)
         \o (IF keyed THEN <<EncodeStr(m[i].k)>> \o ksep ELSE <<>>)
         \o Encode(m[i].v, none, ind, isep, ksep, level)
         \o EncodeItems(m, i + 1, keyed, none, ind, isep, ksep, level)

\* json.encoder._iterencode with indent `ind` (none: indent=None), item
\* separator isep and key separator ksep, at nesting depth `level`.
Encode(v, none, ind, isep, ksep, level) ==
    CASE v.t = "dict" ->
            IF v.m = <<>> THEN <<"{", "}">>
            ELSE <<"{">>
                 \o EncodeItems(v.m, 1, TRUE, none, ind, isep, ksep, level + 1)
                 \o NewlineIndent(none, ind, level) \o <<"}">>
      [] v.t = "list" ->
            IF v.m = <<>> THEN <<"[", "]">>
            ELSE <<"[">>
                 \o EncodeItems(v.m, 1, FALSE, none, ind, isep, ksep, level + 1)
                 \o NewlineIndent(none, ind, level) \o <<"]">>
      [] v.t = "str" -> <<EncodeStr(v.s)>>
      [] OTHER -> <<v.s>>

\* The indent Script A passes to json.dumps.
Indent == 2

\* json.dumps(data, indent=2): with an indent the item separator is ","
\* and the key separator ": ".
Dumps(v) == Encode(v, FALSE, Indent, <<",">>, <<":", " ">>, 0)

---------------------------------------------------------------------------
(* json.loads.                                                             *)

Fail == [ok |-> FALSE, v |-> Unset, i |-> 0]
Ok(v, i) == [ok |-> TRUE, v |-> v, i |-> i]

RECURSIVE SkipWs(_, _)
\* WHITESPACE.match(s, i).end(): the first position from i on that holds
\* no whitespace (Len + 1 at the end of the text).
SkipWs(toks, i) ==
    IF i <= Len(toks) /\ toks[i] \in WS THEN SkipWs(toks, i + 1) ELSE i

\* The one element of a singleton.  Below, The({e : v \in {x}}) is e with v
\* standing for the value of x: the set binds the value, so that TLC works
\* x out once instead of once for every place e uses it.
The(S) == CHOOSE y \in S : TRUE

RECURSIVE ParseValue(_, _)
RECURSIVE ParseMembers(_, _, _)
RECURSIVE ParseElements(_, _, _)

\* json.decoder.JSONObject's loop, at the position i of a key: key, ':' at
\* j, value r, then at e '}' or ',' and the next key.  The pairs become a
\* dict, so a repeated key keeps its first position and its last value.
ParseMembers(toks, i, acc) ==
    IF i > Len(toks) \/ toks[i] \notin StrLexemes THEN Fail
    ELSE The({
         IF j > Len(toks) \/ toks[j] # ":" THEN Fail
         ELSE The({
              IF ~r.ok THEN Fail
              ELSE The({
                   IF e > Len(toks) THEN Fail
                   ELSE IF toks[e] = "}" THEN Ok(Dict(acc2), e + 1)
                   ELSE IF toks[e] = ","
                        THEN ParseMembers(toks, SkipWs(toks, e + 1), acc2)
                   ELSE Fail
                   : e \in {SkipWs(toks, r.i)},
                     acc2 \in {SetItem(acc, DecodeStr(toks[i]), r.v)} })
              : r \in {ParseValue(toks, SkipWs(toks, j + 1))} })
         : j \in {SkipWs(toks, i + 1)} })

\* json.decoder.JSONArray's loop, at the position i of an element: value
\* r, then at e ']' or ',' and the next element.
ParseElements(toks, i, acc) ==
    The({
        IF ~r.ok THEN Fail
        ELSE The({
             IF e > Len(toks) THEN Fail
             ELSE IF toks[e] = "]" THEN Ok(List(acc2), e + 1)
             ELSE IF toks[e] = ","
                  THEN ParseElements(toks, SkipWs(toks, e + 1), acc2)
             ELSE Fail
             : e \in {SkipWs(toks, r.i)},
               acc2 \in {Append(acc, Item("", r.v))} })
        : r \in {ParseValue(toks, i)} })

\* json.scanner.py_make_scanner's _scan_once at position i.
ParseValue(toks, i) ==
    The({
        IF p > Len(toks) THEN Fail
        ELSE The({
             CASE c \in StrLexemes     -> Ok(Str(DecodeStr(c)), p + 1)
               [] c \in NumLexemes     -> Ok(DecodeNum(c), p + 1)
               [] c \in ConstLexemes   -> Ok(Const(c), p + 1)
               [] c \in NonJsonLexemes -> Ok(Float(c), p + 1)
               [] c = "{" ->
                    IF j <= Len(toks) /\ toks[j] = "}"
                    THEN Ok(Dict(<<>>), j + 1)
                    ELSE ParseMembers(toks, j, <<>>)
               [] c = "[" ->
                    IF j <= Len(toks) /\ toks[j] = "]"
                    THEN Ok(List(<<>>), j + 1)
                    ELSE ParseElements(toks, j, <<>>)
               [] OTHER -> Fail
             : c \in {toks[p]}, j \in {SkipWs(toks, p + 1)} })
        : p \in {i} })

\* json.loads(s): skip leading whitespace, decode one value, and reject
\* anything but whitespace after it ("Extra data").
Loads(toks) ==
    The({
        IF ~r.ok THEN Fail
        ELSE IF SkipWs(toks, r.i) = Len(toks) + 1 THEN r
        ELSE Fail
        : r \in {ParseValue(toks, SkipWs(toks, 1))} })

---------------------------------------------------------------------------
(* The paths of the two scripts, as pathlib holds them: the root and the   *)
(* components joined to it.                                                *)

\* p of adjust_postinstall.py
ManifestPath == <<"/Users/a81808/Desktop/meal-log-app-new", "apps", "server", "package.json">>
\* root of fix_esbuild.py
Root == <<"/Users/a81808/Desktop/meal-log-app-new">>
\* esscripts = root / 'node_modules' / 'esbuild'
Esscripts == Root \o <<"node_modules", "esbuild">>
\* node_bin = esscripts / 'bin'
NodeBin == Esscripts \o <<"bin">>
\* installexe = esscripts / 'install.js' (never used)
InstallExe == Esscripts \o <<"install.js">>

\* The value Script A stores under scripts.postinstall.
PostinstallCmd == "echo skip prisma generate"

---------------------------------------------------------------------------
(* The enumerated inputs: manifests, directory trees, environment.         *)

RECURSIVE Pick(_, _, _)
\* The subsequence of `pool` at the positions in S, from position i on.
Pick(pool, S, i) ==
    IF i > Len(pool) THEN <<>>
    ELSE (IF i \in S THEN <<pool[i]>> ELSE <<>>) \o Pick(pool, S, i + 1)

\* Top-level entries a manifest may hold beside "scripts".
OtherPool ==
    << Item("name", Str("a/b")),
       Item("version", Float("100.0")),
       Item("deps", Dict(<<Item("build", PyInt("1")), Item("private", Const("true"))>>)),
       Item("private", List(<<Item("", Const("null")), Item("", PyInt("0"))>>)) >>

Others ==
    { Pick(OtherPool, S, 1) :
        S \in {T \in SUBSET (1..Len(OtherPool)) : Cardinality(T) <= MaxOther} }

\* Values found under "scripts": mappings ...
ScriptsDicts ==
    { Dict(<<>>),
      Dict(<<Item("build", Str("tsc"))>>),
      Dict(<<Item("postinstall", Str("prisma generate"))>>),
      Dict(<<Item("postinstall", Str("prisma generate")), Item("build", Str("tsc"))>>),
      Dict(<<Item("build", Str("tsc")), Item("postinstall", Str(PostinstallCmd))>>) }

\* ... and values that are no mapping.
ScriptsOdd ==
    { Const("null"), Const("false"), Str("tsc"), PyInt("0"), Float("1.0"),
      List(<<>>), List(<<Item("", Str("build"))>>) }

\* The JSON objects enumerated: with no "scripts", or with "scripts" before
\* or after the other entries.
Objects ==
    { Dict(o) : o \in Others }
    \cup { Dict(<<Item("scripts", s)>> \o o) : o \in Others, s \in ScriptsDicts \cup ScriptsOdd }
    \cup { Dict(o \o <<Item("scripts", s)>>) : o \in Others, s \in ScriptsDicts \cup ScriptsOdd }

\* JSON documents whose top-level value is no object.
NonObjects ==
    { List(<<>>), List(<<Item("", Dict(<<Item("scripts", Dict(<<>>))>>))>>),
      Str("scripts"), PyInt("1"), Const("null"), Const("true") }

\* The layouts a document is enumerated in: json.dumps's default (indent
\* None), its most compact separators, and an indent of four.
Layouts(v) ==
    { Encode(v, TRUE, 0, <<",", " ">>, <<":", " ">>, 0),
      Encode(v, TRUE, 0, <<",">>, <<":">>, 0),
      Encode(v, FALSE, 4, <<",">>, <<":", " ">>, 0) \o <<"\n">> }

\* Texts written by hand: escaped and repeated keys, number lexemes that
\* are not canonical, the constants outside JSON.
HandTexts ==
    { <<"{", "\"\\u0073cripts\"", ":", "{", "\"build\"", ":", "\"tsc\"", "}", ",",
        "\"name\"", ":", "\"a\\/b\"", ",", "\t", "\"version\"", ":", "1e2", "}", "\r", "\n">>,
      <<"{", "\"scripts\"", ":", "{", "\"postinstall\"", ":", "\"tsc\"", "}", ",",
        "\"name\"", ":", "1", ",",
        "\"scripts\"", ":", "{", "\"build\"", ":", "\"tsc\"", "}", ",",
        "\"name\"", ":", "1.0", "}">>,
      <<"{", "\"name\"", ":", "1.0", ",", "\"name\"", ":", "\"tsc\"", "}">>,
      <<"{", "\"version\"", ":", "NaN", "}">>,
      <<"{", "\"scripts\"", ":", "{", "\"build\"", ":", "-Infinity", "}", ",",
        "\"version\"", ":", "Infinity", "}">>,
      <<"{", "\"scripts\"", ":", "NaN", "}">>,
      <<"Infinity">> }

\* Texts json.loads rejects.
Malformed ==
    { <<>>, <<" ", "\n">>,
      <<"{">>, <<"}">>, <<"{", "\"name\"", "}">>,
      <<"{", "\"name\"", ":", "1", ",", "}">>,
      <<"{", "\"name\"", " ", "1", "}">>,
      <<"{", "'name'", ":", "1", "}">>,
      <<"{", "name", ":", "1", "}">>,
      <<"{", "\"name\"", ":", "01", "}">>,
      <<"{", "\"name\"", ":", "1", "}", "}">>,
      <<"{", "\"name\"", ":", "[", "1", ",", "]", "}">>,
      <<"{", "\"name\"", ":", "[", "1", "}">>,
      <<"{", "\"scripts\"", ":", "{", "\"build\"", ":", "\"tsc\"", "}">>,
      <<"{", "\"scripts\"", ":", "{", "\"build\"", ":", "undefined", "}", "}">>,
      <<"[", "]", "[", "]">>,
      <<"// package", "\n", "{", "}">> }
    \cup { SubSeq(t, 1, Len(t) - 1) : t \in {Dumps(Dict(o)) : o \in Others} }

Texts ==
    UNION {Layouts(v) : v \in Objects \cup NonObjects} \cup HandTexts \cup Malformed

File(r, w, content) ==
    [kind |-> "file", readable |-> r, writable |-> w, content |-> content]

\* No file at the path.
Missing ==
    [kind |-> "missing", readable |-> FALSE, writable |-> FALSE, content |-> <<>>]

\* The manifests Script A is run on.
Manifests ==
    {Missing}
    \cup { File(rw[1], rw[2], c) :
            rw \in {<<TRUE, TRUE>>, <<TRUE, FALSE>>, <<FALSE, TRUE>>}, c \in Texts }

\* The disk: room for any data, or for `free` more tokens.
NoQuota == [limited |-> FALSE, free |-> 0]
Quotas == {NoQuota, [limited |-> TRUE, free |-> 0], [limited |-> TRUE, free |-> 3]}

\* Names found in node_modules/esbuild/bin and in node_modules/esbuild.
BinPool == <<"esbuild", "esbuild.exe", "esbuild.cmd">>
PkgPool == {"install.js", "package.json"}

BinSets ==
    { {BinPool[i] : i \in S} :
        S \in {T \in SUBSET (1..Len(BinPool)) : Cardinality(T) <= MaxBinFiles} }

\* What stat() and listdir() answer below the root.  pkg and bin are the
\* answers of stat for node_modules/esbuild and node_modules/esbuild/bin:
\* a directory ("dir"), another file ("file"), ENOENT or ENOTDIR
\* ("absent"), EACCES ("denied"); listable is whether bin can be read.
Tree(pkg, pkgFiles, bin, listable, binFiles) ==
    [pkg |-> pkg, pkgFiles |-> pkgFiles, bin |-> bin, listable |-> listable,
     binFiles |-> binFiles]

Trees ==
    { Tree("absent", {}, "absent", FALSE, {}),
      Tree("file", {}, "absent", FALSE, {}),
      Tree("denied", {}, "denied", FALSE, {}) }
    \cup { Tree("dir", f, b, FALSE, {}) : f \in SUBSET PkgPool, b \in {"absent", "file", "denied"} }
    \cup { Tree("dir", f, "dir", l, n) : f \in SUBSET PkgPool, l \in BOOLEAN, n \in BinSets }

\* The tree beside the manifest while Script A runs, and the manifests
\* beside the tree while Script B runs.
TreeOfA == Tree("dir", {"install.js"}, "dir", TRUE, {"esbuild"})
ManifestsOfB == {Missing, File(TRUE, TRUE, <<"{", "}">>)}

---------------------------------------------------------------------------
(* The process.                                                            *)

\* The statements of Script A and of Script B in program order.
StepsA == <<"read", "loads", "get", "setitem", "assign", "dumps", "open", "write">>
StepsB == <<"exists", "bin_exists", "iterdir">>
Terminal == {"done", "failed"}

First(s) == IF s = "A" THEN StepsA[1] ELSE StepsB[1]

Disk == [manifest |-> manifest, tree |-> tree]

Init ==
    /\ script \in {"A", "B"}
    /\ pc = First(script)
    /\ exc = ""
    /\ manifest \in (IF script = "A" THEN Manifests ELSE ManifestsOfB)
    /\ tree \in (IF script = "A" THEN {TreeOfA} ELSE Trees)
    /\ quota \in (IF script = "A" THEN Quotas ELSE {NoQuota})
    /\ pyExists \in (IF script = "A" THEN {"raise"} ELSE {"raise", "false"})
    /\ text = <<>>
    /\ data = Unset
    /\ scripts = Unset
    /\ payload = <<>>
    /\ stdout = <<>>
    /\ run = 1
    /\ disk0 = Disk
    /\ wrote = <<>>
    /\ trace = <<>>

\* The process moves on to statement `next`.
Goto(next) ==
    /\ pc' = next
    /\ exc' = ""
    /\ trace' = Append(trace, pc)

\* The statement raises: nothing catches it, the interpreter prints the
\* traceback and exits.
Raise(e) ==
    /\ pc' = "failed"
    /\ exc' = e
    /\ trace' = Append(trace, pc)

Env == <<script, quota, pyExists, run, disk0>>
LocalsA == <<text, data, scripts, payload>>

---------------------------------------------------------------------------
(* Script A, adjust_postinstall.py.                                        *)

\* A read that opens the file for update, which makes a missing file.
AReadTouch ==
    /\ script = "A" /\ pc = "read"
    /\ IF manifest.kind = "missing"
       THEN Goto("loads") /\ text' = <<>> /\ manifest' = File(TRUE, TRUE, <<>>)
       ELSE IF ~manifest.readable THEN Raise("PermissionError") /\ UNCHANGED <<text, manifest>>
       ELSE Goto("loads") /\ text' = manifest.content /\ manifest' = manifest
    /\ UNCHANGED <<Env, tree, data, scripts, payload, stdout, wrote>>

\* A read that tries again when the file cannot be read.
AReadRetry ==
    /\ script = "A" /\ pc = "read"
    /\ IF manifest.kind = "missing" \/ ~manifest.readable
       THEN Goto("read") /\ text' = text
       ELSE Goto("loads") /\ text' = manifest.content
    /\ UNCHANGED <<Env, manifest, tree, data, scripts, payload, stdout, wrote>>

\* p.read_text(): open the file for reading and read all of it.
ARead ==
    /\ script = "A" /\ pc = "read"
    /\ IF manifest.kind = "missing" THEN Raise("FileNotFoundError") /\ text' = text
       ELSE IF ~manifest.readable THEN Raise("PermissionError") /\ text' = text
       ELSE Goto("loads") /\ text' = manifest.content
    /\ UNCHANGED <<Env, manifest, tree, data, scripts, payload, stdout, wrote>>

\* A parse that takes an unreadable text for an empty object.
ALoadsLenient ==
    /\ script = "A" /\ pc = "loads"
    /\ Goto("get")
    /\ data' = IF Loads(text).ok THEN Loads(text).v ELSE Dict(<<>>)
    /\ UNCHANGED <<Env, manifest, tree, text, scripts, payload, stdout, wrote>>

\* data = json.loads(...)
ALoads ==
    /\ script = "A" /\ pc = "loads"
    /\ IF Loads(text).ok
       THEN Goto("get") /\ data' = Loads(text).v
       ELSE Raise("JSONDecodeError") /\ data' = data
    /\ UNCHANGED <<Env, manifest, tree, text, scripts, payload, stdout, wrote>>

\* scripts = {}: the mapping already in the file is not looked at.
AGetFresh ==
    /\ script = "A" /\ pc = "get"
    /\ IF data.t = "dict"
       THEN Goto("setitem") /\ scripts' = Dict(<<>>)
       ELSE Raise("AttributeError") /\ scripts' = scripts
    /\ UNCHANGED <<Env, manifest, tree, text, data, payload, stdout, wrote>>

\* scripts = data.get('scripts') or {}: a falsy value gives way to {}.
AGetOrEmpty ==
    /\ script = "A" /\ pc = "get"
    /\ IF data.t = "dict"
       THEN /\ Goto("setitem")
            /\ scripts' =
                 LET got == DictGet(data.m, "scripts", Const("null"))
                 IN  IF got \in {Const("null"), Const("false"), PyInt("0"),
                                 List(<<>>), Dict(<<>>)}
                     THEN Dict(<<>>) ELSE got
       ELSE Raise("AttributeError") /\ scripts' = scripts
    /\ UNCHANGED <<Env, manifest, tree, text, data, payload, stdout, wrote>>

\* scripts = data.get('scripts', {}): only a dict has get.
AGet ==
    /\ script = "A" /\ pc = "get"
    /\ IF data.t = "dict"
       THEN Goto("setitem") /\ scripts' = DictGet(data.m, "scripts", Dict(<<>>))
       ELSE Raise("AttributeError") /\ scripts' = scripts
    /\ UNCHANGED <<Env, manifest, tree, text, data, payload, stdout, wrote>>

\* scripts['postinstall'] = 'echo skip prisma generate': only a dict takes
\* a str key.  When `scripts` is the dict held in `data`, the two names
\* are one object and `data` shows the assignment too.
ASetItem ==
    /\ script = "A" /\ pc = "setitem"
    /\ IF scripts.t = "dict"
       THEN LET new == Dict(SetItem(scripts.m, "postinstall", Str(PostinstallCmd)))
            IN  /\ Goto("assign")
                /\ scripts' = new
                /\ data' = IF HasKey(data.m, "scripts")
                           THEN Dict(SetItem(data.m, "scripts", new))
                           ELSE data
       ELSE Raise("TypeError") /\ UNCHANGED <<scripts, data>>
    /\ UNCHANGED <<Env, manifest, tree, text, payload, stdout, wrote>>

\* data = {'scripts': scripts}: the other entries are dropped.
AAssignFresh ==
    /\ script = "A" /\ pc = "assign"
    /\ Goto("dumps")
    /\ data' = Dict(<<Item("scripts", scripts)>>)
    /\ UNCHANGED <<Env, manifest, tree, text, scripts, payload, stdout, wrote>>

\* data['scripts']=scripts
AAssign ==
    /\ script = "A" /\ pc = "assign"
    /\ Goto("dumps")
    /\ data' = Dict(SetItem(data.m, "scripts", scripts))
    /\ UNCHANGED <<Env, manifest, tree, text, scripts, payload, stdout, wrote>>

\* json.dumps(data, indent=2), the argument of write_text
ADumps ==
    /\ script = "A" /\ pc = "dumps"
    /\ Goto("open")
    /\ payload' = Dumps(data)
    /\ UNCHANGED <<Env, manifest, tree, text, data, scripts, stdout, wrote>>

\* p.write_text(...), first half: open(mode='w') truncates the file.
AOpen ==
    /\ script = "A" /\ pc = "open"
    /\ IF manifest.writable
       THEN Goto("write") /\ manifest' = [manifest EXCEPT !.content = <<>>]
       ELSE Raise("PermissionError") /\ manifest' = manifest
    /\ UNCHANGED <<Env, tree, LocalsA, stdout, wrote>>

\* p.write_text(...), second half: write the text and close; a full disk
\* keeps what fitted and raises OSError.
AWrite ==
    /\ script = "A" /\ pc = "write"
    /\ IF quota.limited /\ quota.free < Len(payload)
       THEN /\ Raise("OSError")
            /\ manifest' = [manifest EXCEPT !.content = SubSeq(payload, 1, quota.free)]
            /\ wrote' = wrote
       ELSE /\ Goto("done")
            /\ manifest' = [manifest EXCEPT !.content = payload]
            /\ wrote' = Append(wrote, payload)
    /\ UNCHANGED <<Env, tree, LocalsA, stdout>>

StepA == ARead \/ ALoads \/ AGet \/ ASetItem \/ AAssign \/ ADumps \/ AOpen \/ AWrite

---------------------------------------------------------------------------
(* Script B, fix_esbuild.py.                                               *)

\* An existence test that lets stat's error through, as Path.stat() does.
PathExistsStat(st, py) ==
    IF st \in {"dir", "file"} THEN "True" ELSE "raise"

\* Path.exists() on a path stat answers `st` for: "True", "False", or
\* "raise".  ENOENT and ENOTDIR are swallowed; EACCES is raised by the
\* Pythons whose exists() re-raises what it does not ignore and answered
\* False by those whose exists() is os.path.exists.
PathExists(st, py) ==
    CASE st \in {"dir", "file"} -> "True"
      [] st = "absent"          -> "False"
      [] st = "denied"          -> IF py = "raise" THEN "raise" ELSE "False"

Line(label, txt, paths) == [label |-> label, text |-> txt, paths |-> paths]

\* The orders os.listdir may give the entries of a directory in.
Listings(names) ==
    { l \in [1..Cardinality(names) -> names] : {l[i] : i \in DOMAIN l} = names }

\* print('Exists:', esscripts.exists())
BExists ==
    /\ script = "B" /\ pc = "exists"
    /\ LET e == PathExists(tree.pkg, pyExists)
       IN  IF e = "raise" THEN Raise("PermissionError") /\ stdout' = stdout
           ELSE Goto("bin_exists") /\ stdout' = Append(stdout, Line("Exists:", e, <<>>))
    /\ UNCHANGED <<Env, manifest, tree, LocalsA, wrote>>

\* An existence test that makes the bin directory it misses.
BBinExistsMkdir ==
    /\ script = "B" /\ pc = "bin_exists"
    /\ LET e == PathExists(tree.bin, pyExists)
       IN  CASE e = "raise" -> Raise("PermissionError") /\ UNCHANGED <<stdout, tree>>
             [] e = "True"  -> Goto("iterdir") /\ UNCHANGED <<stdout, tree>>
             [] e = "False" -> /\ Goto("done")
                               /\ stdout' = Append(stdout, Line("Files:", "missing bin", <<>>))
                               /\ tree' = IF tree.pkg = "dir"
                                          THEN [tree EXCEPT !.bin = "dir", !.listable = TRUE]
                                          ELSE tree
    /\ UNCHANGED <<Env, manifest, LocalsA, wrote>>

\* ... if node_bin.exists() else 'missing bin', and the print of the latter
BBinExists ==
    /\ script = "B" /\ pc = "bin_exists"
    /\ LET e == PathExists(tree.bin, pyExists)
       IN  CASE e = "raise" -> Raise("PermissionError") /\ stdout' = stdout
             [] e = "True"  -> Goto("iterdir") /\ stdout' = stdout
             [] e = "False" -> /\ Goto("done")
                               /\ stdout' = Append(stdout, Line("Files:", "missing bin", <<>>))
    /\ UNCHANGED <<Env, manifest, tree, LocalsA, wrote>>

\* A listing of the package directory instead of its bin.
BIterdirPkg ==
    /\ script = "B" /\ pc = "iterdir"
    /\ IF tree.bin # "dir" THEN Raise("NotADirectoryError") /\ stdout' = stdout
       ELSE IF ~tree.listable THEN Raise("PermissionError") /\ stdout' = stdout
       ELSE \E l \in Listings(tree.pkgFiles \cup {"bin"}) :
              /\ Goto("done")
              /\ stdout' = Append(stdout,
                    Line("Files:", "", [i \in DOMAIN l |-> Esscripts \o <<l[i]>>]))
    /\ UNCHANGED <<Env, manifest, tree, LocalsA, wrote>>

\* print('Files:', list(node_bin.iterdir())): the entries of bin, each as
\* the path node_bin / name, in the order the directory gives them.
BIterdir ==
    /\ script = "B" /\ pc = "iterdir"
    /\ IF tree.bin # "dir" THEN Raise("NotADirectoryError") /\ stdout' = stdout
       ELSE IF ~tree.listable THEN Raise("PermissionError") /\ stdout' = stdout
       ELSE \E l \in Listings(tree.binFiles) :
              /\ Goto("done")
              /\ stdout' = Append(stdout,
                    Line("Files:", "", [i \in DOMAIN l |-> NodeBin \o <<l[i]>>]))
    /\ UNCHANGED <<Env, manifest, tree, LocalsA, wrote>>

StepB == BExists \/ BBinExists \/ BIterdir

---------------------------------------------------------------------------
(* The script is run again: a new process, the disk as the last one left   *)
(* it.                                                                     *)
Rerun ==
    /\ pc \in Terminal
    /\ run < MaxRuns
    /\ run' = run + 1
    /\ pc' = First(script)
    /\ exc' = ""
    /\ text' = <<>> /\ data' = Unset /\ scripts' = Unset /\ payload' = <<>>
    /\ stdout' = <<>>
    /\ trace' = <<>>
    /\ disk0' = Disk
    /\ UNCHANGED <<script, manifest, tree, quota, pyExists, wrote>>

Next == StepA \/ StepB \/ Rerun

Spec == Init /\ [][Next]_vars

\* A process that can take a step takes it: one thread, blocking calls.
FairSpec == Spec /\ WF_vars(StepA) /\ WF_vars(StepB)

---------------------------------------------------------------------------
(* Vocabulary of the properties.                                           *)

\* The manifest as the current invocation found it, and parsed.
Orig == disk0.manifest
OrigDoc == Loads(Orig.content)
\* The manifest as it is on disk now, parsed.
NowDoc == Loads(manifest.content)

IsObject(r) == r.ok /\ r.v.t = "dict"

\* The text is JSON: json.loads accepts it and it uses none of the
\* constants JSON does not have.
ValidJson(toks) ==
    Loads(toks).ok /\ \A i \in 1..Len(toks) : toks[i] \notin NonJsonLexemes

\* Script A found a readable file.
FoundFile == script = "A" /\ Orig.kind = "file" /\ Orig.readable

\* Two dicts agree on key k.
SameAt(m1, m2, k) == HasKey(m1, k) /\ HasKey(m2, k) /\ GetItem(m1, k) = GetItem(m2, k)

Range(f) == {f[i] : i \in DOMAIN f}

IsPrefix(a, b) == Len(a) <= Len(b) /\ SubSeq(b, 1, Len(a)) = a

Steps == IF script = "A" THEN StepsA ELSE StepsB

\* The place of a statement in program order; the terminal states come last.
Pos(p) ==
    IF p \in Terminal THEN Len(Steps) + 1
    ELSE CHOOSE i \in 1..Len(Steps) : Steps[i] = p

---------------------------------------------------------------------------
(* The properties.                                                         *)

\* C1: a completed run of Script A on a JSON object with no "scripts" key
\* leaves a file that holds an object whose "scripts" is an object with
\* "postinstall" equal to "echo skip prisma generate", and whose other
\* top-level keys are exactly the original ones with their original values.
C1_AddsScripts ==
    (FoundFile /\ pc = "done" /\ IsObject(OrigDoc) /\ ~HasKey(OrigDoc.v.m, "scripts"))
    => /\ IsObject(NowDoc)
       /\ HasKey(NowDoc.v.m, "scripts")
       /\ LET sc == GetItem(NowDoc.v.m, "scripts")
          IN  /\ sc.t = "dict"
              /\ HasKey(sc.m, "postinstall")
              /\ GetItem(sc.m, "postinstall") = Str(PostinstallCmd)
       /\ Keys(NowDoc.v.m) \ {"scripts"} = Keys(OrigDoc.v.m)
       /\ \A k \in Keys(OrigDoc.v.m) : SameAt(OrigDoc.v.m, NowDoc.v.m, k)

C1_Witness ==
    /\ FoundFile /\ pc = "done" /\ run = 1
    /\ IsObject(OrigDoc) /\ ~HasKey(OrigDoc.v.m, "scripts")
    /\ Cardinality(Keys(OrigDoc.v.m)) >= 2
    /\ manifest.content # Orig.content

\* C2: a completed run of Script A on a JSON object whose "scripts" is an
\* object keeps every key of "scripts" other than "postinstall" with its
\* value, sets "postinstall" to "echo skip prisma generate" whether it was
\* present or not, adds no other key to "scripts", and leaves every
\* top-level key other than "scripts" unchanged.
C2_KeepsOtherScripts ==
    (/\ FoundFile /\ pc = "done" /\ IsObject(OrigDoc)
     /\ HasKey(OrigDoc.v.m, "scripts")
     /\ GetItem(OrigDoc.v.m, "scripts").t = "dict")
    => /\ IsObject(NowDoc)
       /\ Keys(NowDoc.v.m) = Keys(OrigDoc.v.m)
       /\ \A k \in Keys(OrigDoc.v.m) \ {"scripts"} : SameAt(OrigDoc.v.m, NowDoc.v.m, k)
       /\ LET was == GetItem(OrigDoc.v.m, "scripts")
              sc  == GetItem(NowDoc.v.m, "scripts")
          IN  /\ sc.t = "dict"
              /\ Keys(sc.m) = Keys(was.m) \cup {"postinstall"}
              /\ \A k \in Keys(was.m) \ {"postinstall"} : SameAt(was.m, sc.m, k)
              /\ GetItem(sc.m, "postinstall") = Str(PostinstallCmd)

C2_Witness ==
    /\ FoundFile /\ pc = "done" /\ IsObject(OrigDoc)
    /\ HasKey(OrigDoc.v.m, "scripts")
    /\ LET was == GetItem(OrigDoc.v.m, "scripts")
       IN  /\ was.t = "dict"
           /\ HasKey(was.m, "build")
           /\ HasKey(was.m, "postinstall")
           /\ GetItem(was.m, "postinstall") # Str(PostinstallCmd)
    /\ Cardinality(Keys(OrigDoc.v.m)) >= 2

\* C3: Script A is idempotent: after a completed run, every further run
\* completes too and writes the very content the run before it wrote, so
\* the file is the same after it as before it.
C3_Idempotent ==
    (script = "A" /\ run > 1 /\ Len(wrote) >= run - 1 /\ pc \in Terminal)
    => /\ pc = "done"
       /\ Len(wrote) = run
       /\ wrote[run] = wrote[run - 1]
       /\ manifest.content = Orig.content

C3_Witness ==
    /\ script = "A" /\ pc = "done" /\ run = 2 /\ Len(wrote) = 2
    /\ Cardinality(Keys(data.m)) >= 3
    /\ Cardinality(Keys(scripts.m)) >= 2

C5_MissingPackage ==
    (script = "B" /\ disk0.tree.pkg = "absent")
    => /\ pc # "failed" /\ exc = ""
       /\ pc = "done" =>
            stdout = << Line("Exists:", "False", <<>>),
                        Line("Files:", "missing bin", <<>>) >>

C5_Witness ==
    script = "B" /\ disk0.tree.pkg = "absent" /\ pc = "done" /\ Len(stdout) = 2

\* A path whose last component is `name` is printed.
Listed(name) ==
    \E ln \in Range(stdout) : \E q \in Range(ln.paths) : q[Len(q)] = name

\* C6 as stated: when node_modules/esbuild exists and holds files, a
\* completed run of Script B has printed the names of those files.
C6_Original ==
    (script = "B" /\ pc = "done" /\ tree.pkg = "dir" /\ tree.pkgFiles # {})
    => \A n \in tree.pkgFiles : Listed(n)

\* C6, amended: when node_modules/esbuild/bin is a directory that can be
\* listed, Script B completes and its second line, "Files:", lists exactly
\* the entries of bin, each once, as the path bin/<name>.
C6_ListsBin ==
    (script = "B" /\ pc \in Terminal /\ tree.bin = "dir" /\ tree.listable)
    => /\ pc = "done"
       /\ Len(stdout) = 2
       /\ stdout[1] = Line("Exists:", "True", <<>>)
       /\ stdout[2].label = "Files:"
       /\ Range(stdout[2].paths) = {NodeBin \o <<n>> : n \in tree.binFiles}
       /\ Len(stdout[2].paths) = Cardinality(tree.binFiles)

C6_Witness ==
    /\ script = "B" /\ pc = "done" /\ tree.bin = "dir"
    /\ Cardinality(tree.binFiles) >= 2
    /\ tree.pkgFiles # {}

\* C7: no step of Script B changes the manifest, the tree or the room on
\* the disk; within a run its output only grows.
C7_NoMutation ==
    [][script = "B" =>
         /\ manifest' = manifest /\ tree' = tree /\ quota' = quota
         /\ run' = run => IsPrefix(stdout, stdout')]_vars

C7_Witness ==
    /\ script = "B" /\ pc = "done" /\ run = MaxRuns
    /\ tree.pkg = "dir" /\ tree.bin = "absent" /\ Len(stdout) = 2

\* C8: run on a manifest that is missing or cannot be read, Script A fails
\* at its read: that one statement is all it executes, the exception is
\* FileNotFoundError or PermissionError, and the manifest is as it was (a
\* missing one still missing).
C8_ReadFailure ==
    (script = "A" /\ (Orig.kind = "missing" \/ ~Orig.readable) /\ pc # "read")
    => /\ pc = "failed"
       /\ exc = (IF Orig.kind = "missing" THEN "FileNotFoundError" ELSE "PermissionError")
       /\ trace = <<"read">>
       /\ manifest = Orig

C8_Witness ==
    script = "A" /\ pc = "failed" /\ manifest.kind = "missing" /\ run = 1

\* C9: every run of either script ends, completed or failed; until then
\* each step moves forward in program order, so a run takes at most as
\* many steps as the script has statements, and an ended run takes none.
C9_Terminates ==
    /\ []<>(pc \in Terminal)
    /\ [](Len(trace) <= Len(Steps))
    /\ [][run' = run => (pc \notin Terminal /\ Pos(pc') > Pos(pc))]_vars

C9_Witness ==
    /\ pc = "done" /\ script = "A" /\ Len(trace) = Len(StepsA) /\ run = MaxRuns

\* C10: run on a readable file that holds JSON which is no object, or an
\* object whose "scripts" is no object, Script A fails in the lookup
\* (AttributeError) or in the item assignment (TypeError), never reaches
\* the write, and the file is at every moment what it was.
C10_OddShape ==
    (/\ FoundFile /\ OrigDoc.ok
     /\ \/ OrigDoc.v.t # "dict"
        \/ /\ HasKey(OrigDoc.v.m, "scripts")
           /\ GetItem(OrigDoc.v.m, "scripts").t # "dict")
    => /\ manifest = Orig
       /\ "open" \notin Range(trace)
       /\ pc # "done"
       /\ pc = "failed" =>
            exc = (IF OrigDoc.v.t # "dict" THEN "AttributeError" ELSE "TypeError")

C10_Witness ==
    /\ FoundFile /\ pc = "failed" /\ exc = "TypeError"
    /\ scripts \in {Const("null"), List(<<>>), PyInt("0")}
    /\ manifest.writable

=============================================================================
